---- MODULE Spec2Model ----
(***************************************************************************)
(* Model of dna.py: the genome (class Dna) of a NEAT individual, with its  *)
(* constructor, node lookup, mutation proposals, weight mutation and       *)
(* crossover.                                                              *)
(*                                                                         *)
(* Python objects are records carrying a "type" field.  Object identity    *)
(* (the `is` operator, reference equality) is the "ref" field of an        *)
(* Innovation and the list position of a node.                             *)
(*                                                                         *)
(* Reals are fixed-point integers.  random() returns n / RandDen for a     *)
(* numerator n in RandomNums, so it lies in [0, 1); a weight w is stored   *)
(* as the integer w * WeightScale.                                         *)
(***************************************************************************)
EXTENDS Integers, Sequences, FiniteSets, TLC

VARIABLES
    dna,        \* the genome the calls are made on (self)
    op,         \* name of the last call
    args,       \* arguments of the last call
    raised,     \* exception the last call ended with, NoException if it returned
    ret,        \* value the last call returned
    child_dna,  \* crossover's local child_dna at the end of the last crossover
    trials,     \* which Bernoulli trials of the last mutate call fired
    calls       \* number of mutate calls made so far

vars == <<dna, op, args, raised, ret, child_dna, trials, calls>>

----------------------------------------------------------------------------
(* Bounds of the model *)

\* node_gene of a constructed genome holds at most MaxNodes nodes
MaxNodes == 3

\* at most MaxMutations mutate calls are made on a genome
MaxMutations == 2

\* random() is drawn from the grid {n / RandDen}
RandDen == 32

\* lists of a genome edited by the main simulation hold at most MaxListed entries
MaxListed == 2

\* the divisor of the perturbation, random() * weight_range / 8.0
PerturbDivisor == 8

\* numerators of the values random() returns: the least and the greatest of the grid
RandomNums == {0, RandDen - 1}

\* the rates handed to mutate, as numerators over RandDen: every rate is 0, 1/2 or 1
RateVectors ==
    { <<0, 0, 0, 0>>,
      <<0, 0, RandDen, RandDen>>,
      <<0, 0, RandDen, 0>>,
      <<RandDen \div 2, 0, 0, 0>>,
      <<0, RandDen \div 2, 0, 0>>,
      <<0, 0, RandDen \div 2, RandDen \div 2>>,
      <<RandDen, RandDen, RandDen, 0>> }

\* weight_range values handed to the constructor
WeightRanges == {1, 2}

\* integer stored for the weight 1.0
WeightScale == RandDen * PerturbDivisor

----------------------------------------------------------------------------
(* Python values *)

None == [type |-> "NoneType"]

List(items) == [type |-> "list", items |-> items]

Tuple(items) == [type |-> "tuple", items |-> items]

\* the tuple (src_number, dst_number) of two ints
Avenue(src_number, dst_number) ==
    [type |-> "avenue", src_number |-> src_number, dst_number |-> dst_number]

NoException == "None"

\* random.choice on an empty sequence
IndexError == "IndexError: Cannot choose from an empty sequence"

\* `node, = []`
NotEnoughValues == "ValueError: not enough values to unpack (expected 1, got 0)"

\* `node, = [a, b, ...]`
TooManyValues == "ValueError: too many values to unpack (expected 1)"

Returns(value) == [raised |-> NoException, value |-> value]

Raises(exception) == [raised |-> exception, value |-> None]

Range(s) == { s[k] : k \in 1..Len(s) }

----------------------------------------------------------------------------
(* node.py and innovation.py: plain data holders *)

InputNode(number, layer) == [type |-> "InputNode", number |-> number, layer |-> layer]

OutputNode(number, layer) == [type |-> "OutputNode", number |-> number, layer |-> layer]

HiddenNode(number, layer) == [type |-> "HiddenNode", number |-> number, layer |-> layer]

Innovation(ref, number, src_number, dst_number, weight, enabled, forward) ==
    [type |-> "Innovation", ref |-> ref, number |-> number,
     src_number |-> src_number, dst_number |-> dst_number,
     weight |-> weight, enabled |-> enabled, forward |-> forward]

\* a == b on two Innovation objects: homology, equal innovation numbers
InnovationEq(a, b) == a.number = b.number

----------------------------------------------------------------------------
(* class Dna *)

\* random() * self.weight_range * 2 - self.weight_range, random() = n / RandDen
random_weight(self, n) ==
    (n * self.weight_range * 2 * WeightScale) \div RandDen - self.weight_range * WeightScale

\* s[:n] for n >= 0
SliceTo(s, n) == SubSeq(s, 1, IF n < Len(s) THEN n ELSE Len(s))

\* s[-n:] for n >= 0; s[-0:] is the whole list
SliceFromEnd(s, n) ==
    IF n = 0 \/ n >= Len(s) THEN s ELSE SubSeq(s, Len(s) - n + 1, Len(s))

DnaInitNumberedFromOne(id, inputs, outputs, weight_range, empty, draws) ==
    LET node_gene ==
            IF ~empty
            THEN [k \in 1..(inputs + outputs) |->
                     IF k - 1 < inputs THEN InputNode(k - 1, 0) ELSE OutputNode(k - 1, 1)]
            ELSE <<>>
        self0 == [type |-> "Dna", inputs |-> inputs, outputs |-> outputs,
                  weight_range |-> weight_range, empty |-> empty,
                  node_gene |-> node_gene, innovation_gene |-> <<>>]
        ins == SliceTo(node_gene, inputs)
        outs == SliceFromEnd(node_gene, outputs)
        no == Len(outs)
        innovation_gene ==
            IF ~empty
            THEN [k \in 1..(Len(ins) * no) |->
                     Innovation(<<id, k>>, k,
                                ins[((k - 1) \div no) + 1].number,
                                outs[((k - 1) % no) + 1].number,
                                random_weight(self0, draws[k]), TRUE, TRUE)]
            ELSE <<>>
    IN  [self0 EXCEPT !.innovation_gene = innovation_gene]

\* Dna.__init__; draws[k] is the random() of the k-th random_weight call and
\* id names the object, so that <<id, k>> is the identity of its k-th Innovation
DnaInit(id, inputs, outputs, weight_range, empty, draws) ==
    LET node_gene ==
            IF ~empty
            THEN [k \in 1..(inputs + outputs) |->
                     IF k - 1 < inputs THEN InputNode(k - 1, 0) ELSE OutputNode(k - 1, 1)]
            ELSE <<>>
        self0 == [type |-> "Dna", inputs |-> inputs, outputs |-> outputs,
                  weight_range |-> weight_range, empty |-> empty,
                  node_gene |-> node_gene, innovation_gene |-> <<>>]
        ins == SliceTo(node_gene, inputs)
        outs == SliceFromEnd(node_gene, outputs)
        no == Len(outs)
        \* the k-th append of the nested loop: len(self.innovation_gene) is k - 1
        innovation_gene ==
            IF ~empty
            THEN [k \in 1..(Len(ins) * no) |->
                     Innovation(<<id, k>>, k - 1,
                                ins[((k - 1) \div no) + 1].number,
                                outs[((k - 1) % no) + 1].number,
                                random_weight(self0, draws[k]), TRUE, TRUE)]
            ELSE <<>>
    IN  [self0 EXCEPT !.innovation_gene = innovation_gene]

get_node_first_match(self, number) ==
    LET found == SelectSeq(self.node_gene, LAMBDA node : node.number = number)
    IN  IF Len(found) = 0 THEN Raises(NotEnoughValues) ELSE Returns(found[1])

\* node, = [node for node in self.node_gene if node.number == number]
get_node(self, number) ==
    LET found == SelectSeq(self.node_gene, LAMBDA node : node.number = number)
    IN  IF Len(found) = 1 THEN Returns(found[1])
        ELSE IF Len(found) = 0 THEN Raises(NotEnoughValues)
        ELSE Raises(TooManyValues)

\* n is the random() of the random_weight call
new_innovation(self, src_number, dst_number, n) ==
    LET src == get_node(self, src_number)
        dst == get_node(self, dst_number)
    IN  IF src.raised # NoException THEN Raises(src.raised)
        ELSE IF dst.raised # NoException THEN Raises(dst.raised)
        ELSE Returns(Tuple(<<Innovation(<<"new_innovation", 1>>, -1, src_number, dst_number,
                                        random_weight(self, n), TRUE,
                                        src.value.layer < dst.value.layer)>>))

new_node_swapped_weights(self, target_innovation) ==
    LET src == get_node(self, target_innovation.src_number)
        dst == get_node(self, target_innovation.dst_number)
        node == HiddenNode(-1, -1)
    IN  IF src.raised # NoException THEN Raises(src.raised)
        ELSE IF dst.raised # NoException THEN Raises(dst.raised)
        ELSE LET forward == src.value.layer < dst.value.layer
             IN  Returns(Tuple(<<node,
                     Innovation(<<"new_node", 1>>, -1, src.value.number, node.number,
                                target_innovation.weight, TRUE, forward),
                     Innovation(<<"new_node", 2>>, -1, node.number, dst.value.number,
                                1 * WeightScale, TRUE, forward),
                     target_innovation>>))

new_node(self, target_innovation) ==
    LET src == get_node(self, target_innovation.src_number)
        dst == get_node(self, target_innovation.dst_number)
        node == HiddenNode(-1, -1)
    IN  IF src.raised # NoException THEN Raises(src.raised)
        ELSE IF dst.raised # NoException THEN Raises(dst.raised)
        ELSE LET forward == src.value.layer < dst.value.layer
             IN  Returns(Tuple(<<node,
                     Innovation(<<"new_node", 1>>, -1, src.value.number, node.number,
                                1 * WeightScale, TRUE, forward),
                     Innovation(<<"new_node", 2>>, -1, node.number, dst.value.number,
                                target_innovation.weight, TRUE, forward),
                     target_innovation>>))

get_available_connections_from_hidden(self) ==
    LET nodes == self.node_gene
        n == Len(nodes)
        all_connections ==
            [k \in 1..Len(self.innovation_gene) |->
                <<self.innovation_gene[k].src_number, self.innovation_gene[k].dst_number>>]
        pairs == [k \in 1..(n * n) |-> <<((k - 1) \div n) + 1, ((k - 1) % n) + 1>>]
        keep(pq) ==
            /\ pq[1] # pq[2]
            /\ <<nodes[pq[1]].number, nodes[pq[2]].number>> \notin Range(all_connections)
            /\ nodes[pq[1]].type # nodes[pq[2]].type
        chosen == SelectSeq(pairs, keep)
    IN  [k \in 1..Len(chosen) |->
            Avenue(nodes[chosen[k][1]].number, nodes[chosen[k][2]].number)]

\* the nested loop visits the pairs of list positions in row-major order
get_available_connections(self) ==
    LET nodes == self.node_gene
        n == Len(nodes)
        all_connections ==
            [k \in 1..Len(self.innovation_gene) |->
                <<self.innovation_gene[k].src_number, self.innovation_gene[k].dst_number>>]
        pairs == [k \in 1..(n * n) |-> <<((k - 1) \div n) + 1, ((k - 1) % n) + 1>>]
        keep(pq) ==
            /\ pq[1] # pq[2]                                    \* src_node is not dst_node
            /\ <<nodes[pq[1]].number, nodes[pq[2]].number>> \notin Range(all_connections)
            /\ nodes[pq[1]].type # "HiddenNode"
            /\ nodes[pq[1]].type # nodes[pq[2]].type
        chosen == SelectSeq(pairs, keep)
    IN  [k \in 1..Len(chosen) |->
            Avenue(nodes[chosen[k][1]].number, nodes[chosen[k][2]].number)]

\* a_innovation in b_innovations: Python's `in` holds for the same object and for an equal one
In(innovation, innovations) ==
    \E k \in 1..Len(innovations) :
        \/ innovation.ref = innovations[k].ref
        \/ InnovationEq(innovation, innovations[k])

\* crossover's local function
sort_innovations(a_innovations, b_innovations) ==
    [ab_matching |-> SelectSeq(a_innovations, LAMBDA a : In(a, b_innovations)),
     a_specific |-> SelectSeq(a_innovations, LAMBDA a : ~In(a, b_innovations)),
     b_specific |-> SelectSeq(b_innovations, LAMBDA b : ~In(b, a_innovations))]

\* the loop `for innovation in matching: if random() < 0.5: append`, flips[k] being
\* the numerator of the k-th random()
RECURSIVE inherit_matching(_, _)
inherit_matching(matching, flips) ==
    IF Len(matching) = 0 THEN <<>>
    ELSE LET rest == inherit_matching(SubSeq(matching, 1, Len(matching) - 1), flips)
         IN  IF 2 * flips[Len(matching)] < RandDen
             THEN Append(rest, matching[Len(matching)])
             ELSE rest

\* Dna.crossover: every outcome of a call.  The function ends after the loop over the
\* matching innovations, without a return statement: it returns None
crossover(self, mate) ==
    LET child0 == DnaInit("child", self.inputs, self.outputs, self.weight_range, TRUE, <<>>)
        sorted == sort_innovations(self.innovation_gene, mate.innovation_gene)
        matching == sorted.ab_matching
    IN  { [raised |-> NoException, ret |-> None,
           child_dna |-> [child0 EXCEPT !.innovation_gene = inherit_matching(matching, flips)]]
          : flips \in [1..Len(matching) -> RandomNums] }

\* random() < rate, for a rate given as a numerator over RandDen
Trial(rate) == { n < rate : n \in RandomNums }

\* the body of `if random() < weight_mutation_rate:` once choice has picked the
\* k-th innovation; n is the random() of the new weight or of the perturbation
mutate_weight_all(self, k, replace, n) ==
    LET delta == (n * self.weight_range * WeightScale) \div (RandDen * PerturbDivisor)
    IN  [self EXCEPT !.innovation_gene =
            [j \in 1..Len(self.innovation_gene) |->
                [self.innovation_gene[j] EXCEPT !.weight =
                    IF replace THEN random_weight(self, n) ELSE @ + delta]]]

mutate_weight(self, k, replace, n) ==
    [self EXCEPT !.innovation_gene[k].weight =
        IF replace
        THEN (n * self.weight_range * 2 * WeightScale) \div RandDen
                 - self.weight_range * WeightScale
        ELSE @ + (n * self.weight_range * WeightScale) \div (RandDen * PerturbDivisor)]

\* "# Node mutation": the outcomes of the first trial
node_mutation(self, rate) ==
    UNION { IF ~fires THEN {[raised |-> NoException, mutations |-> <<>>, fired |-> FALSE]}
            ELSE IF Len(self.innovation_gene) = 0
            THEN {[raised |-> IndexError, mutations |-> <<>>, fired |-> TRUE]}
            ELSE { LET r == new_node(self, self.innovation_gene[k])
                   IN  [raised |-> r.raised,
                        mutations |-> IF r.raised = NoException THEN <<r.value>> ELSE <<>>,
                        fired |-> TRUE]
                   : k \in 1..Len(self.innovation_gene) }
            : fires \in Trial(rate) }

connection_mutation_skips_when_none(self, rate, mutations) ==
    LET available == get_available_connections(self)
    IN  UNION { IF ~fires
                THEN {[raised |-> NoException, mutations |-> mutations, fired |-> FALSE]}
                ELSE IF Len(available) = 0
                THEN {[raised |-> NoException, mutations |-> mutations, fired |-> TRUE]}
                ELSE { LET r == new_innovation(self, available[k].src_number,
                                               available[k].dst_number, n)
                       IN  [raised |-> r.raised,
                            mutations |-> IF r.raised = NoException
                                          THEN Append(mutations, r.value) ELSE mutations,
                            fired |-> TRUE]
                       : k \in 1..Len(available), n \in RandomNums }
                : fires \in Trial(rate) }

\* "# Connection mutation": the outcomes of the second trial
connection_mutation(self, rate, mutations) ==
    LET available == get_available_connections(self)
    IN  UNION { IF ~fires
                THEN {[raised |-> NoException, mutations |-> mutations, fired |-> FALSE]}
                ELSE IF Len(available) = 0
                THEN {[raised |-> IndexError, mutations |-> mutations, fired |-> TRUE]}
                ELSE { LET r == new_innovation(self, available[k].src_number,
                                               available[k].dst_number, n)
                       IN  [raised |-> r.raised,
                            mutations |-> IF r.raised = NoException
                                          THEN Append(mutations, r.value) ELSE mutations,
                            fired |-> TRUE]
                       : k \in 1..Len(available), n \in RandomNums }
                : fires \in Trial(rate) }

\* "# Mutate a weight": the outcomes of the third trial
weight_mutation(self, rate, random_weight_rate) ==
    UNION { IF ~fires THEN {[raised |-> NoException, self |-> self, fired |-> FALSE]}
            ELSE IF Len(self.innovation_gene) = 0
            THEN {[raised |-> IndexError, self |-> self, fired |-> TRUE]}
            ELSE { [raised |-> NoException, self |-> mutate_weight(self, k, replace, n),
                    fired |-> TRUE]
                   : k \in 1..Len(self.innovation_gene),
                     replace \in Trial(random_weight_rate), n \in RandomNums }
            : fires \in Trial(rate) }

MutateOutcome(self, raised_, mutations, node, connection, weight) ==
    [self |-> self, raised |-> raised_,
     ret |-> IF raised_ = NoException THEN List(mutations) ELSE None,
     trials |-> [node |-> node, connection |-> connection, weight |-> weight]]

\* Dna.mutate: every outcome of a call with the rates <<node_mutation_rate,
\* innovation_mutation_rate, weight_mutation_rate, random_weight_rate>>
mutate(self, rates) ==
    UNION { IF a.raised # NoException
            THEN {MutateOutcome(self, a.raised, <<>>, a.fired, FALSE, FALSE)}
            ELSE UNION {
                IF b.raised # NoException
                THEN {MutateOutcome(self, b.raised, <<>>, a.fired, b.fired, FALSE)}
                ELSE { MutateOutcome(c.self, c.raised, b.mutations, a.fired, b.fired, c.fired)
                       : c \in weight_mutation(self, rates[3], rates[4]) }
                : b \in connection_mutation(self, rates[2], a.mutations) }
            : a \in node_mutation(self, rates[1]) }

----------------------------------------------------------------------------
(* The calls *)

\* op between two calls
Idle == "idle"

NoTrials == [node |-> FALSE, connection |-> FALSE, weight |-> FALSE]

\* the genomes Dna(inputs, outputs, weight_range, empty) can construct
Constructed(id) ==
    UNION { { DnaInit(id, i, o, w, FALSE, draws) : draws \in [1..(i * o) -> RandomNums] }
            \cup { DnaInit(id, i, o, w, TRUE, <<>>) }
            : i \in 1..(MaxNodes - 1), o \in 1..(MaxNodes - 1), w \in WeightRanges }

Init ==
    /\ dna \in { d \in Constructed("self") : d.inputs + d.outputs <= MaxNodes }
    /\ op = "__init__"
    /\ args = [inputs |-> dna.inputs, outputs |-> dna.outputs,
               weight_range |-> dna.weight_range, empty |-> dna.empty]
    /\ raised = NoException
    /\ ret = None
    /\ child_dna = None
    /\ trials = NoTrials
    /\ calls = 0

\* the caller drops the result of the last call and goes on to its next call
Continue ==
    /\ op # Idle
    /\ op' = Idle
    /\ args' = [none |-> TRUE]
    /\ raised' = NoException
    /\ ret' = None
    /\ child_dna' = None
    /\ trials' = NoTrials
    /\ UNCHANGED <<dna, calls>>

Mutate ==
    /\ op = Idle
    /\ calls < MaxMutations
    /\ \E rates \in RateVectors : \E out \in mutate(dna, rates) :
          /\ dna' = out.self
          /\ op' = "mutate"
          /\ args' = [node_mutation_rate |-> rates[1], innovation_mutation_rate |-> rates[2],
                      weight_mutation_rate |-> rates[3], random_weight_rate |-> rates[4]]
          /\ raised' = out.raised
          /\ ret' = out.ret
          /\ trials' = out.trials
    /\ calls' = calls + 1
    /\ UNCHANGED child_dna

GetNode ==
    /\ op = Idle
    /\ \E number \in -1..MaxNodes :
          LET r == get_node(dna, number)
          IN  /\ op' = "get_node"
              /\ args' = [number |-> number]
              /\ raised' = r.raised
              /\ ret' = r.value
    /\ trials' = NoTrials
    /\ UNCHANGED <<dna, child_dna, calls>>

NewInnovation ==
    /\ op = Idle
    /\ \E src_number \in 0..MaxNodes, dst_number \in 0..MaxNodes, n \in RandomNums :
          LET r == new_innovation(dna, src_number, dst_number, n)
          IN  /\ op' = "new_innovation"
              /\ args' = [src_number |-> src_number, dst_number |-> dst_number]
              /\ raised' = r.raised
              /\ ret' = r.value
    /\ trials' = NoTrials
    /\ UNCHANGED <<dna, child_dna, calls>>

NewNode ==
    /\ op = Idle
    /\ \E k \in 1..Len(dna.innovation_gene) :
          LET r == new_node(dna, dna.innovation_gene[k])
          IN  /\ op' = "new_node"
              /\ args' = [target_innovation |-> dna.innovation_gene[k]]
              /\ raised' = r.raised
              /\ ret' = r.value
    /\ trials' = NoTrials
    /\ UNCHANGED <<dna, child_dna, calls>>

GetAvailableConnections ==
    /\ op = Idle
    /\ op' = "get_available_connections"
    /\ args' = [none |-> TRUE]
    /\ raised' = NoException
    /\ ret' = List(get_available_connections(dna))
    /\ trials' = NoTrials
    /\ UNCHANGED <<dna, child_dna, calls>>

\* mate is another constructed genome, or self
Crossover ==
    /\ op = Idle
    /\ \E mate \in { d \in Constructed("mate") : d.inputs + d.outputs <= MaxNodes } \cup {dna} :
          \E out \in crossover(dna, mate) :
             /\ op' = "crossover"
             /\ args' = [mate |-> mate]
             /\ raised' = out.raised
             /\ ret' = out.ret
             /\ child_dna' = out.child_dna
    /\ trials' = NoTrials
    /\ UNCHANGED <<dna, calls>>

Next == Continue \/ Mutate \/ GetNode \/ NewInnovation \/ NewNode \/ GetAvailableConnections

Spec == Init /\ [][Next]_vars

\* The genome and a mate through mutate calls and crossover
NextCrossover == Continue \/ Mutate \/ Crossover

SpecCrossover == Init /\ [][NextCrossover]_vars

----------------------------------------------------------------------------
(* Genomes whose lists the main simulation has edited: it appends the nodes  *)
(* and innovations that mutate proposed and disables the innovations that    *)
(* were split.  get_node and get_available_connections are functions of the  *)
(* two lists alone.                                                          *)

ListedNumbers == {0, 1}

ListedNodes ==
    UNION { {InputNode(n, 0), OutputNode(n, 1), HiddenNode(n, -1)} : n \in ListedNumbers }

SeqsUpTo(S, n) == UNION { [1..m -> S] : m \in 0..n }

ListedDna(node_gene, connections) ==
    [type |-> "Dna",
     inputs |-> Cardinality({k \in 1..Len(node_gene) : node_gene[k].type = "InputNode"}),
     outputs |-> Cardinality({k \in 1..Len(node_gene) : node_gene[k].type = "OutputNode"}),
     weight_range |-> 1, empty |-> FALSE,
     node_gene |-> node_gene,
     innovation_gene |->
        [k \in 1..Len(connections) |->
            Innovation(<<"self", k>>, k - 1, connections[k][1], connections[k][2],
                       0, connections[k][3], TRUE)]]

InitListed ==
    /\ dna \in { ListedDna(node_gene, connections) :
                    node_gene \in SeqsUpTo(ListedNodes, MaxListed),
                    connections \in SeqsUpTo(ListedNumbers \X ListedNumbers \X BOOLEAN,
                                             MaxListed - 1) }
    /\ op = Idle
    /\ args = [none |-> TRUE]
    /\ raised = NoException
    /\ ret = None
    /\ child_dna = None
    /\ trials = NoTrials
    /\ calls = 0

NextListed == Continue \/ GetNode \/ GetAvailableConnections

SpecListed == InitListed /\ [][NextListed]_vars

\* the invariants of a genome: node numbers are unique, no two innovations share
\* their endpoints, and the endpoints are nodes of the genome
WellFormed(self) ==
    /\ \A p, q \in 1..Len(self.node_gene) :
          self.node_gene[p].number = self.node_gene[q].number => p = q
    /\ \A j, k \in 1..Len(self.innovation_gene) :
          (/\ self.innovation_gene[j].src_number = self.innovation_gene[k].src_number
           /\ self.innovation_gene[j].dst_number = self.innovation_gene[k].dst_number) => j = k
    /\ \A k \in 1..Len(self.innovation_gene) :
          \E p, q \in 1..Len(self.node_gene) :
             /\ self.node_gene[p].number = self.innovation_gene[k].src_number
             /\ self.node_gene[q].number = self.innovation_gene[k].dst_number

InitEdited ==
    /\ InitListed
    /\ WellFormed(dna)

NextEdited == Continue \/ Mutate

\* mutate calls on the well-formed genomes the main simulation has edited
SpecEdited == InitEdited /\ [][NextEdited]_vars

----------------------------------------------------------------------------
(* Properties *)

Abs(x) == IF x < 0 THEN -x ELSE x

\* the stored weight lies in [-weight_range, weight_range]
InWeightRange(self, innovation) ==
    Abs(innovation.weight) <= self.weight_range * WeightScale

\* positions of the innovations of self with the given endpoints
Connecting(self, src_number, dst_number) ==
    { k \in 1..Len(self.innovation_gene) :
        /\ self.innovation_gene[k].src_number = src_number
        /\ self.innovation_gene[k].dst_number = dst_number }

NodeNumbers(self) == { self.node_gene[p].number : p \in 1..Len(self.node_gene) }

\* C1: a freshly constructed non-empty genome with i inputs and o outputs has
\* the i + o nodes Input 0..i-1 (layer 0) and Output i..i+o-1 (layer 1), and i * o
\* innovations, exactly one per (input, output) pair and none other, each enabled
\* and forward, each weight in [-W, W], numbered 0..i*o-1 in insertion order.
C1_FreshGenome ==
    (op = "__init__" /\ ~dna.empty) =>
        LET i == dna.inputs
            o == dna.outputs
            nodes == dna.node_gene
            genes == dna.innovation_gene
        IN  /\ Len(nodes) = i + o
            /\ \A n \in 0..(i - 1) : nodes[n + 1] = InputNode(n, 0)
            /\ \A n \in i..(i + o - 1) : nodes[n + 1] = OutputNode(n, 1)
            /\ Len(genes) = i * o
            /\ \A a \in 0..(i - 1), b \in i..(i + o - 1) :
                  Cardinality(Connecting(dna, a, b)) = 1
            /\ \A k \in 1..Len(genes) :
                  /\ genes[k].src_number \in 0..(i - 1)
                  /\ genes[k].dst_number \in i..(i + o - 1)
                  /\ genes[k].enabled
                  /\ genes[k].forward
                  /\ InWeightRange(dna, genes[k])
                  /\ genes[k].number = k - 1

C1_Witness ==
    /\ op = "__init__"
    /\ ~dna.empty
    /\ dna.inputs = 2
    /\ Len(dna.innovation_gene) = 2
    /\ dna.innovation_gene[1].weight # dna.innovation_gene[2].weight

\* C2: after any sequence of mutate calls on a freshly constructed non-empty
\* genome, once each call has returned, every weight is in [-W, W].
C2_WeightsStayInRange ==
    (~dna.empty /\ op \in {"__init__", "mutate"} /\ raised = NoException) =>
        \A k \in 1..Len(dna.innovation_gene) : InWeightRange(dna, dna.innovation_gene[k])

\* the pairs of list positions of distinct nodes that rules (a), (b), (c) allow
AllowedPairs(self) ==
    { pq \in (1..Len(self.node_gene)) \X (1..Len(self.node_gene)) :
        /\ pq[1] # pq[2]
        /\ Connecting(self, self.node_gene[pq[1]].number, self.node_gene[pq[2]].number) = {}
        /\ self.node_gene[pq[1]].type # "HiddenNode"
        /\ self.node_gene[pq[1]].type # self.node_gene[pq[2]].type }

\* C3: get_available_connections returns exactly the pairs (src, dst) of distinct
\* nodes that no innovation, enabled or disabled, connects, whose src is not
\* Hidden and whose roles differ; the empty list when there is none.
C3_AvailableConnections ==
    (op = "get_available_connections") =>
        LET expected == { Avenue(dna.node_gene[pq[1]].number, dna.node_gene[pq[2]].number)
                          : pq \in AllowedPairs(dna) }
        IN  /\ raised = NoException
            /\ ret.type = "list"
            /\ Range(ret.items) = expected
            /\ expected = {} => ret.items = <<>>

C3_Witness ==
    /\ op = "get_available_connections"
    /\ Len(ret.items) = 1
    /\ \E p \in 1..Len(dna.node_gene) : dna.node_gene[p].type = "HiddenNode"
    /\ \E k \in 1..Len(dna.innovation_gene) :
          /\ ~dna.innovation_gene[k].enabled
          /\ dna.innovation_gene[k].src_number # dna.innovation_gene[k].dst_number
          /\ {dna.innovation_gene[k].src_number, dna.innovation_gene[k].dst_number}
                 \subseteq NodeNumbers(dna)

\* positions of the innovations whose weight a step changes
WeightChanged(before, after) ==
    { k \in 1..Len(before.innovation_gene) :
        before.innovation_gene[k].weight # after.innovation_gene[k].weight }

C5_NoAvailableConnection ==
    [][ (op' = "mutate" /\ trials'.connection /\ Len(get_available_connections(dna)) = 0) =>
          /\ raised' = IndexError
          /\ ret' = None
          /\ dna' = dna
      ]_vars

C5_Witness ==
    /\ op = "mutate"
    /\ trials.node
    /\ trials.connection
    /\ raised = IndexError
    /\ Len(dna.innovation_gene) > 0
    /\ args.weight_mutation_rate = RandDen

\* innovation numbers of the innovations of a genome
Numbers(self) == { self.innovation_gene[k].number : k \in 1..Len(self.innovation_gene) }

WithNumber(self, number) ==
    { k \in 1..Len(self.innovation_gene) : self.innovation_gene[k].number = number }

\* weight and enabled state of innovation a are those of some innovation of self
\* with the same innovation number
CopyOf(a, self) ==
    \E k \in WithNumber(self, a.number) :
        /\ a.weight = self.innovation_gene[k].weight
        /\ a.enabled = self.innovation_gene[k].enabled

\* C6: the child of crossover(self, mate) holds, for every innovation number
\* present in both parents, exactly one innovation with that number, a copy of
\* self's or of mate's.
C6_ChildInheritsMatching ==
    (op = "crossover") =>
        /\ raised = NoException
        /\ child_dna.type = "Dna"
        /\ \A number \in Numbers(dna) \cap Numbers(args.mate) :
              /\ Cardinality(WithNumber(child_dna, number)) = 1
              /\ \A k \in WithNumber(child_dna, number) :
                    \/ CopyOf(child_dna.innovation_gene[k], dna)
                    \/ CopyOf(child_dna.innovation_gene[k], args.mate)

Incompatible(self, mate) ==
    \/ self.inputs # mate.inputs
    \/ self.outputs # mate.outputs
    \/ self.weight_range # mate.weight_range

\* C7: crossover(self, mate) fails, producing no child, whenever self and mate
\* differ in inputs, outputs or weight_range.
C7_IncompatibleGenomes ==
    (op = "crossover" /\ Incompatible(dna, args.mate)) =>
        /\ raised # NoException
        /\ child_dna = None

\* the endpoints of every innovation of self are numbers of nodes of self
EndpointsExist(self) ==
    \A k \in 1..Len(self.innovation_gene) :
        /\ self.innovation_gene[k].src_number \in NodeNumbers(self)
        /\ self.innovation_gene[k].dst_number \in NodeNumbers(self)

\* C8: in the freshly constructed genome, in that genome after any mutate calls
\* and in the child built by crossover, the endpoints of every innovation are
\* nodes of the same genome.
C8_EndpointsExist ==
    /\ EndpointsExist(dna)
    /\ (op = "crossover") => (child_dna.type = "Dna" /\ EndpointsExist(child_dna))

\* layer of the node of self with the given number
LayerOf(self, number) ==
    LET p == CHOOSE q \in 1..Len(self.node_gene) : self.node_gene[q].number = number
    IN  self.node_gene[p].layer

\* C9: new_node(g), for an innovation g of the genome, returns a Hidden node
\* numbered -1, the innovation g.src -> -1 of weight 1, the innovation -1 -> g.dst
\* of weight g.weight, and g itself; both new innovations are numbered -1, enabled,
\* and forward iff layer(g.src) < layer(g.dst); the genome is unchanged, g still
\* one of its innovations and still enabled.
C9_SplitConnection ==
    [][ (op' = "new_node") =>
          LET g == args'.target_innovation
              forward == LayerOf(dna, g.src_number) < LayerOf(dna, g.dst_number)
          IN  /\ raised' = NoException
              /\ ret'.type = "tuple"
              /\ Len(ret'.items) = 4
              /\ ret'.items[1].type = "HiddenNode"
              /\ ret'.items[1].number = -1
              /\ [ret'.items[2] EXCEPT !.ref = 0] =
                    [type |-> "Innovation", ref |-> 0, number |-> -1,
                     src_number |-> g.src_number, dst_number |-> -1,
                     weight |-> WeightScale, enabled |-> TRUE, forward |-> forward]
              /\ [ret'.items[3] EXCEPT !.ref = 0] =
                    [type |-> "Innovation", ref |-> 0, number |-> -1,
                     src_number |-> -1, dst_number |-> g.dst_number,
                     weight |-> g.weight, enabled |-> TRUE, forward |-> forward]
              /\ ret'.items[4] = g
              /\ dna' = dna
              /\ \E k \in 1..Len(dna'.innovation_gene) :
                    /\ dna'.innovation_gene[k] = g
                    /\ dna'.innovation_gene[k].ref = ret'.items[4].ref
                    /\ dna'.innovation_gene[k].enabled
      ]_vars

C9_Witness ==
    /\ op = "new_node"
    /\ raised = NoException
    /\ calls > 0
    /\ ~InWeightRange(dna, args.target_innovation)
    /\ ret.items[3].weight = args.target_innovation.weight

\* positions of the nodes of self with the given number
Numbered(self, number) ==
    { p \in 1..Len(self.node_gene) : self.node_gene[p].number = number }

====
